---- MODULE Spec2Model ----
(***************************************************************************)
(* A model of solid.py: Order, the two Authorizer variants and the three   *)
(* PaymentProcessor variants.  Objects live in heaps (sequences indexed by *)
(* object id); an instance holds a __dict__ of the attributes assigned on  *)
(* it, and an attribute that is not in the __dict__ is looked up on the    *)
(* class, as Python does.  Attributes defined in a class body (Order.items,*)
(* Order.quantities, Order.prices, Order.status, SMSAuth.authorized,       *)
(* NotARobot.authorized) are therefore class attributes.                   *)
(***************************************************************************)
EXTENDS Integers, Sequences, FiniteSets

VARIABLES
    Order_items,       \* the list object bound to the class attribute Order.items
    Order_quantities,  \* the list object bound to Order.quantities
    Order_prices,      \* the list object bound to Order.prices
    orders,            \* heap of Order instances: orders[o] is the instance __dict__
    added,             \* history: added[o] = the add_item calls made on order o
    auths,             \* heap of Authorizer instances: [cls, dict]
    procs,             \* heap of PaymentProcessor instances (their __dict__ and class)
    auth_at_init,      \* history: is_authorized() of the authorizer handed to
                       \* DebitPaymentProcessor.__init__, at that moment
    exc                \* the exception raised by the last call ("None": it returned)

vars == <<Order_items, Order_quantities, Order_prices, orders, added,
          auths, procs, auth_at_init, exc>>

(* Bounds of the exploration *)
MaxOrders == 2
MaxItems == 2
MaxPayOrders == 1
MaxPayItems == 1
MaxAuths == 2
MaxProcs == 1

(* Inputs *)
Names == {"Keyboard", "SSD"}
Quantities == {-1, 0, 2}
Prices == {-5, 0, 50}
ModuleItems == {<<"USB Cable", 2, 5>>}
Codes == {"123456", "999999"}
SecurityCodes == {"9876"}
WalletIds == {"wallet123"}

(* Python attribute lookup *)
EmptyDict == [k \in {} |-> "open"]

SetAttr(d, k, v) == [x \in (DOMAIN d) \cup {k} |-> IF x = k THEN v ELSE d[x]]

GetAttr(d, k, classValue) == IF k \in DOMAIN d THEN d[k] ELSE classValue

NoException == "None"

NotAuthorized == "Not Authorized"

(***************************************************************************)
(* class Order                                                             *)
(***************************************************************************)
Order_status == "open"

\* self.items, self.quantities, self.prices: no method assigns them on an
\* instance, so the lookup always ends at the class attribute.
items(o) == Order_items

quantities(o) == Order_quantities

prices(o) == Order_prices

status(o) == GetAttr(orders[o], "status", Order_status)

\* Order(): a new instance with an empty __dict__
Order ==
    /\ orders' = Append(orders, EmptyDict)
    /\ added' = Append(added, <<>>)
    /\ exc' = NoException
    /\ UNCHANGED <<Order_items, Order_quantities, Order_prices, auths, procs, auth_at_init>>

\* add_item inserting at the front of the three lists
add_item_front(o, name, quantity, price) ==
    /\ Order_items' = <<name>> \o items(o)
    /\ Order_quantities' = <<quantity>> \o quantities(o)
    /\ Order_prices' = <<price>> \o prices(o)
    /\ added' = [added EXCEPT ![o] = Append(@, <<name, quantity, price>>)]
    /\ exc' = NoException
    /\ UNCHANGED <<orders, auths, procs, auth_at_init>>

add_item(o, name, quantity, price) ==
    /\ Order_items' = Append(items(o), name)
    /\ Order_quantities' = Append(quantities(o), quantity)
    /\ Order_prices' = Append(prices(o), price)
    /\ added' = [added EXCEPT ![o] = Append(@, <<name, quantity, price>>)]
    /\ exc' = NoException
    /\ UNCHANGED <<orders, auths, procs, auth_at_init>>

RECURSIVE total_price_loop(_, _, _)
total_price_loop(o, i, total) ==
    IF i > Len(prices(o)) THEN total
    ELSE total_price_loop(o, i + 1, total + quantities(o)[i] * prices(o)[i])

total_price(o) == total_price_loop(o, 1, 0)

(***************************************************************************)
(* class SMSAuth, class NotARobot                                          *)
(***************************************************************************)
SMSAuth_authorized == FALSE

NotARobot_authorized == FALSE

SMSAuth ==
    /\ auths' = Append(auths, [cls |-> "SMSAuth", dict |-> EmptyDict])
    /\ exc' = NoException
    /\ UNCHANGED <<Order_items, Order_quantities, Order_prices, orders, added, procs, auth_at_init>>

NotARobot ==
    /\ auths' = Append(auths, [cls |-> "NotARobot", dict |-> EmptyDict])
    /\ exc' = NoException
    /\ UNCHANGED <<Order_items, Order_quantities, Order_prices, orders, added, procs, auth_at_init>>

\* verify_code accepting one code only and raising on any other
verify_code_checked(a, code) ==
    /\ auths[a].cls = "SMSAuth"
    /\ IF code = "123456"
       THEN /\ auths' = [auths EXCEPT ![a].dict = SetAttr(@, "authorized", TRUE)]
            /\ exc' = NoException
       ELSE /\ auths' = auths
            /\ exc' = "Invalid code"
    /\ UNCHANGED <<Order_items, Order_quantities, Order_prices, orders, added, procs, auth_at_init>>

verify_code(a, code) ==
    /\ auths[a].cls = "SMSAuth"
    /\ auths' = [auths EXCEPT ![a].dict = SetAttr(@, "authorized", TRUE)]
    /\ exc' = NoException
    /\ UNCHANGED <<Order_items, Order_quantities, Order_prices, orders, added, procs, auth_at_init>>

\* not_a_robot assigning the class attribute (NotARobot.authorized = True), which
\* every NotARobot instance reads
not_a_robot_class(a) ==
    /\ auths[a].cls = "NotARobot"
    /\ auths' = [b \in DOMAIN auths |->
                    IF auths[b].cls = "NotARobot"
                    THEN [auths[b] EXCEPT !.dict = SetAttr(@, "authorized", TRUE)]
                    ELSE auths[b]]
    /\ exc' = NoException
    /\ UNCHANGED <<Order_items, Order_quantities, Order_prices, orders, added, procs, auth_at_init>>

not_a_robot(a) ==
    /\ auths[a].cls = "NotARobot"
    /\ auths' = [auths EXCEPT ![a].dict = SetAttr(@, "authorized", TRUE)]
    /\ exc' = NoException
    /\ UNCHANGED <<Order_items, Order_quantities, Order_prices, orders, added, procs, auth_at_init>>

SMSAuth_is_authorized(a) == GetAttr(auths[a].dict, "authorized", SMSAuth_authorized)

NotARobot_is_authorized(a) == GetAttr(auths[a].dict, "authorized", NotARobot_authorized)

is_authorized(a) ==
    IF auths[a].cls = "SMSAuth" THEN SMSAuth_is_authorized(a)
    ELSE NotARobot_is_authorized(a)

(***************************************************************************)
(* class CreditPaymentProcessor, DebitPaymentProcessor,                    *)
(* BitcoinPaymentProcessor                                                 *)
(***************************************************************************)
CreditPaymentProcessor(security_code) ==
    /\ procs' = Append(procs, [cls |-> "CreditPaymentProcessor",
                               security_code |-> security_code])
    /\ auth_at_init' = Append(auth_at_init, FALSE)
    /\ exc' = NoException
    /\ UNCHANGED <<Order_items, Order_quantities, Order_prices, orders, added, auths>>

DebitPaymentProcessor(security_code, auth) ==
    /\ procs' = Append(procs, [cls |-> "DebitPaymentProcessor",
                               auth |-> auth,
                               security_code |-> security_code])
    /\ auth_at_init' = Append(auth_at_init, is_authorized(auth))
    /\ exc' = NoException
    /\ UNCHANGED <<Order_items, Order_quantities, Order_prices, orders, added, auths>>

BitcoinPaymentProcessor(wallet_id) ==
    /\ procs' = Append(procs, [cls |-> "BitcoinPaymentProcessor",
                               wallet_id |-> wallet_id])
    /\ auth_at_init' = Append(auth_at_init, FALSE)
    /\ exc' = NoException
    /\ UNCHANGED <<Order_items, Order_quantities, Order_prices, orders, added, auths>>

CreditPaymentProcessor_pay(p, o) ==
    /\ procs[p].cls = "CreditPaymentProcessor"
    /\ orders' = [orders EXCEPT ![o] = SetAttr(@, "status", "PAID")]
    /\ exc' = NoException
    /\ UNCHANGED <<Order_items, Order_quantities, Order_prices, added, auths, procs, auth_at_init>>

\* pay marking the order before it checks the authorizer
DebitPaymentProcessor_pay_marks_first(p, o) ==
    /\ procs[p].cls = "DebitPaymentProcessor"
    /\ orders' = [orders EXCEPT ![o] = SetAttr(@, "status", "PAID")]
    /\ exc' = IF ~is_authorized(procs[p].auth) THEN NotAuthorized ELSE NoException
    /\ UNCHANGED <<Order_items, Order_quantities, Order_prices, added, auths, procs, auth_at_init>>

\* pay recording the rejection on the order
DebitPaymentProcessor_pay_marks_failed(p, o) ==
    /\ procs[p].cls = "DebitPaymentProcessor"
    /\ IF ~is_authorized(procs[p].auth)
       THEN /\ exc' = NotAuthorized
            /\ orders' = [orders EXCEPT ![o] = SetAttr(@, "status", "FAILED")]
       ELSE /\ orders' = [orders EXCEPT ![o] = SetAttr(@, "status", "PAID")]
            /\ exc' = NoException
    /\ UNCHANGED <<Order_items, Order_quantities, Order_prices, added, auths, procs, auth_at_init>>

\* pay using up the authorization it was given
DebitPaymentProcessor_pay_consumes(p, o) ==
    /\ procs[p].cls = "DebitPaymentProcessor"
    /\ IF ~is_authorized(procs[p].auth)
       THEN /\ exc' = NotAuthorized
            /\ orders' = orders
            /\ auths' = auths
       ELSE /\ orders' = [orders EXCEPT ![o] = SetAttr(@, "status", "PAID")]
            /\ auths' = [auths EXCEPT ![procs[p].auth].dict = SetAttr(@, "authorized", FALSE)]
            /\ exc' = NoException
    /\ UNCHANGED <<Order_items, Order_quantities, Order_prices, added, procs, auth_at_init>>

\* pay deciding on what the authorizer reported when the processor was constructed
DebitPaymentProcessor_pay_snapshot(p, o) ==
    /\ procs[p].cls = "DebitPaymentProcessor"
    /\ IF ~auth_at_init[p]
       THEN /\ exc' = NotAuthorized
            /\ orders' = orders
       ELSE /\ orders' = [orders EXCEPT ![o] = SetAttr(@, "status", "PAID")]
            /\ exc' = NoException
    /\ UNCHANGED <<Order_items, Order_quantities, Order_prices, added, auths, procs, auth_at_init>>

DebitPaymentProcessor_pay(p, o) ==
    /\ procs[p].cls = "DebitPaymentProcessor"
    /\ IF ~is_authorized(procs[p].auth)
       THEN /\ exc' = NotAuthorized
            /\ orders' = orders
       ELSE /\ orders' = [orders EXCEPT ![o] = SetAttr(@, "status", "PAID")]
            /\ exc' = NoException
    /\ UNCHANGED <<Order_items, Order_quantities, Order_prices, added, auths, procs, auth_at_init>>

\* pay writing the status in another spelling
BitcoinPaymentProcessor_pay_lowercase(p, o) ==
    /\ procs[p].cls = "BitcoinPaymentProcessor"
    /\ orders' = [orders EXCEPT ![o] = SetAttr(@, "status", "paid")]
    /\ exc' = NoException
    /\ UNCHANGED <<Order_items, Order_quantities, Order_prices, added, auths, procs, auth_at_init>>

BitcoinPaymentProcessor_pay(p, o) ==
    /\ procs[p].cls = "BitcoinPaymentProcessor"
    /\ orders' = [orders EXCEPT ![o] = SetAttr(@, "status", "PAID")]
    /\ exc' = NoException
    /\ UNCHANGED <<Order_items, Order_quantities, Order_prices, added, auths, procs, auth_at_init>>

\* processor.pay(order): dispatch on the processor's class
pay(p, o) ==
    \/ CreditPaymentProcessor_pay(p, o)
    \/ DebitPaymentProcessor_pay(p, o)
    \/ BitcoinPaymentProcessor_pay(p, o)

(***************************************************************************)
(* Specifications                                                          *)
(***************************************************************************)
Init ==
    /\ Order_items = <<>>
    /\ Order_quantities = <<>>
    /\ Order_prices = <<>>
    /\ orders = <<>>
    /\ added = <<>>
    /\ auths = <<>>
    /\ procs = <<>>
    /\ auth_at_init = <<>>
    /\ exc = NoException

\* Orders alone, with items of any sign
NewOrder == Len(orders) < MaxOrders /\ Order

AddItem ==
    \E o \in DOMAIN orders, name \in Names, quantity \in Quantities, price \in Prices :
        Len(Order_items) < MaxItems /\ add_item(o, name, quantity, price)

NextOrder == NewOrder \/ AddItem

OrderSpec == Init /\ [][NextOrder]_vars

\* The whole program
PayNewOrder == Len(orders) < MaxPayOrders /\ Order

PayAddItem ==
    \E o \in DOMAIN orders, line \in ModuleItems :
        Len(Order_items) < MaxPayItems /\ add_item(o, line[1], line[2], line[3])

NewSMSAuth == Len(auths) < MaxAuths /\ SMSAuth

NewNotARobot == Len(auths) < MaxAuths /\ NotARobot

VerifyCode == \E a \in DOMAIN auths, code \in Codes : verify_code(a, code)

NotARobotCheck == \E a \in DOMAIN auths : not_a_robot(a)

NewCredit ==
    \E security_code \in SecurityCodes :
        Len(procs) < MaxProcs /\ CreditPaymentProcessor(security_code)

NewDebit ==
    \E security_code \in SecurityCodes, a \in DOMAIN auths :
        Len(procs) < MaxProcs /\ DebitPaymentProcessor(security_code, a)

NewBitcoin ==
    \E wallet_id \in WalletIds :
        Len(procs) < MaxProcs /\ BitcoinPaymentProcessor(wallet_id)

PayCredit == \E p \in DOMAIN procs, o \in DOMAIN orders : CreditPaymentProcessor_pay(p, o)

PayDebit == \E p \in DOMAIN procs, o \in DOMAIN orders : DebitPaymentProcessor_pay(p, o)

PayBitcoin == \E p \in DOMAIN procs, o \in DOMAIN orders : BitcoinPaymentProcessor_pay(p, o)

Next ==
    \/ PayNewOrder
    \/ PayAddItem
    \/ NewSMSAuth
    \/ NewNotARobot
    \/ VerifyCode
    \/ NotARobotCheck
    \/ NewCredit
    \/ NewDebit
    \/ NewBitcoin
    \/ PayCredit
    \/ PayDebit
    \/ PayBitcoin

Spec == Init /\ [][Next]_vars

(***************************************************************************)
(* Properties                                                              *)
(***************************************************************************)
RECURSIVE SumLines(_)
SumLines(lines) ==
    IF lines = <<>> THEN 0
    ELSE lines[1][2] * lines[1][3] + SumLines(Tail(lines))

\* a verification action called on authorizer a
VerificationOn(a) == (\E code \in Codes : verify_code(a, code)) \/ not_a_robot(a)

IsDebit(p) == procs[p].cls = "DebitPaymentProcessor"

\* C1: total_price() of an order is the sum of quantity * price over the items
\* added to that order by add_item, and 0 when nothing was added to it.
C1_TotalIsSumOfOwnItems ==
    \A o \in DOMAIN orders : total_price(o) = SumLines(added[o])

\* C2: right after Order() the new order's items, quantities and prices are
\* empty and its status is "open", whatever was added to other orders before.
C2_CreatedEmpty ==
    [][Order =>
        \A n \in DOMAIN orders' :
            n = Len(orders) + 1 =>
                /\ items(n)' = <<>>
                /\ quantities(n)' = <<>>
                /\ prices(n)' = <<>>
                /\ status(n)' = "open"]_vars

\* C3: pay on a debit processor whose authorizer (of either variant) reports
\* is_authorized() false raises "Not Authorized" and leaves the order's status
\* as it was.
C3_UnauthorizedDebitRaises ==
    [][\A p \in DOMAIN procs, o \in DOMAIN orders :
        (IsDebit(p) /\ ~is_authorized(procs[p].auth) /\ pay(p, o)) =>
            (exc' = NotAuthorized /\ status(o)' = status(o))]_vars

C3_Witness ==
    /\ exc = NotAuthorized
    /\ \E p \in DOMAIN procs :
        /\ IsDebit(p)
        /\ auths[procs[p].auth].cls = "NotARobot"
        /\ ~is_authorized(procs[p].auth)
    /\ \E o \in DOMAIN orders : status(o) = "open"

\* C4: pay completes with the order's status "PAID": always for a credit or a
\* bitcoin processor, and for a debit processor whenever its authorizer is
\* authorized at the call.
C4_PaySetsPaid ==
    [][\A p \in DOMAIN procs, o \in DOMAIN orders :
        (pay(p, o) /\ (~IsDebit(p) \/ is_authorized(procs[p].auth))) =>
            (exc' = NoException /\ status(o)' = "PAID")]_vars

C4_Witness ==
    /\ exc = NoException
    /\ Len(procs) = 1
    /\ procs[1].cls = "BitcoinPaymentProcessor"
    /\ \E o \in DOMAIN orders : status(o) = "PAID"

\* C5: an authorizer reports is_authorized() false when created and until a
\* verification action is called on it; a verification action (verify_code
\* with any code, not_a_robot) returns without raising and is_authorized() is
\* true after it.
C5_FalseUntilVerified ==
    [][/\ \A a \in DOMAIN auths' : a \notin DOMAIN auths => ~is_authorized(a)'
       /\ \A a \in DOMAIN auths :
            /\ (~is_authorized(a) /\ is_authorized(a)') => VerificationOn(a)
            /\ VerificationOn(a) => (is_authorized(a)' /\ exc' = NoException)]_vars

C5_Witness ==
    \E a, b \in DOMAIN auths :
        /\ auths[a].cls = "SMSAuth" /\ is_authorized(a)
        /\ auths[b].cls = "NotARobot" /\ ~is_authorized(b)

C7_PayFrame ==
    [][\A p \in DOMAIN procs, o \in DOMAIN orders :
        pay(p, o) =>
            /\ items(o)' = items(o)
            /\ quantities(o)' = quantities(o)
            /\ prices(o)' = prices(o)
            /\ total_price(o)' = total_price(o)
            /\ DOMAIN auths' = DOMAIN auths
            /\ \A a \in DOMAIN auths : is_authorized(a)' = is_authorized(a)
            /\ procs' = procs]_vars

C7_Witness ==
    /\ exc = NoException
    /\ \E o \in DOMAIN orders :
        /\ status(o) = "PAID"
        /\ items(o) = <<"USB Cable">>
        /\ total_price(o) = 10
    /\ \E p \in DOMAIN procs : IsDebit(p) /\ is_authorized(procs[p].auth)

\* C8: add_item appends name, quantity and price at the end of the three lists
\* without rejecting any sign, the entries already there keep their values and
\* positions, and the three lists always have the same length.
C8_ParallelLists ==
    /\ Len(Order_items) = Len(Order_quantities)
    /\ Len(Order_quantities) = Len(Order_prices)
    /\ \A o \in DOMAIN orders :
        Len(items(o)) = Len(quantities(o)) /\ Len(quantities(o)) = Len(prices(o))

C8_Appends ==
    \A o \in DOMAIN orders, name \in Names, quantity \in Quantities, price \in Prices :
        add_item(o, name, quantity, price) =>
            /\ exc' = NoException
            /\ Len(items(o)') = Len(items(o)) + 1
            /\ items(o)'[Len(items(o)) + 1] = name
            /\ quantities(o)'[Len(quantities(o)) + 1] = quantity
            /\ prices(o)'[Len(prices(o)) + 1] = price
            /\ \A i \in 1..Len(items(o)) :
                /\ items(o)'[i] = items(o)[i]
                /\ quantities(o)'[i] = quantities(o)[i]
                /\ prices(o)'[i] = prices(o)[i]

C8_AppendKeepsParallel == []C8_ParallelLists /\ [][C8_Appends]_vars

C8_Witness ==
    /\ Len(Order_items) = 2
    /\ Order_items[1] = "SSD" /\ Order_items[2] = "Keyboard"
    /\ Order_quantities = <<-1, 0>>
    /\ Order_prices = <<0, -5>>

\* C9: a debit processor decides on what its authorizer reports when pay is
\* called, whatever the authorizer reported when the processor was constructed:
\* pay raises while the authorizer is unverified and sets "PAID" once it is.
C9_DecidesAtCallTime ==
    [][\A p \in DOMAIN procs, o \in DOMAIN orders :
        (IsDebit(p) /\ ~auth_at_init[p] /\ pay(p, o)) =>
            IF is_authorized(procs[p].auth)
            THEN exc' = NoException /\ status(o)' = "PAID"
            ELSE exc' = NotAuthorized /\ status(o)' = status(o)]_vars

C9_Witness ==
    /\ exc = NoException
    /\ procs # <<>>
    /\ \A p \in DOMAIN procs : IsDebit(p) /\ ~auth_at_init[p]
    /\ \E o \in DOMAIN orders : status(o) = "PAID"

\* C10: an authorized authorizer stays authorized, and a verification action on
\* one authorizer leaves is_authorized() of every other authorizer as it was,
\* so a debit processor holding another, unverified authorizer still rejects.
C10_MonotonePerInstance ==
    [][\A a \in DOMAIN auths :
        /\ is_authorized(a) => is_authorized(a)'
        /\ VerificationOn(a) =>
            /\ \A b \in DOMAIN auths \ {a} : is_authorized(b)' = is_authorized(b)
            /\ \A p \in DOMAIN procs :
                (IsDebit(p) /\ procs[p].auth # a /\ ~is_authorized(procs[p].auth)) =>
                    ~is_authorized(procs[p].auth)']_vars

C10_Witness ==
    /\ exc = NotAuthorized
    /\ \E a, b \in DOMAIN auths :
        /\ auths[a].cls = "NotARobot" /\ auths[b].cls = "NotARobot"
        /\ is_authorized(a) /\ ~is_authorized(b)
        /\ \E p \in DOMAIN procs : IsDebit(p) /\ procs[p].auth = b

====
